---- MODULE Spec2Model ----
(***************************************************************************)
(* Financial Eye (Receipt-OCR-Tracker): the App component of src/App.tsx,  *)
(* its extraction client (analyzeReceiptImage) and the remote collaborators*)
(* it talks to (identity provider, document store with a live             *)
(* subscription), as one event-driven state machine.  Every action is one *)
(* event handler or one asynchronous completion, run to its end.          *)
(* The history view (src/components/TransactionHistory.tsx, its flat and   *)
(* its summary variant) is a second machine, HistorySpec, over the same    *)
(* state: the saved list, the clock and the time zone are its inputs.      *)
(* SaveSpec is the application from the moment an accepted result is on    *)
(* screen, with repeated clicks on Save; FairSpec is Spec with the awaited *)
(* promises of an analysis settling.                                       *)
(***************************************************************************)
EXTENDS Integers, Sequences, FiniteSets, TLC

(* ------------------------------ bounds -------------------------------- *)
CurrentYear == 2024   \* new Date().getFullYear(): the system year of the session
MaxCalls    == 2      \* extraction calls outstanding at once
MaxSaves    == 1      \* addDoc calls issued in a session
MaxPending  == 1      \* addDoc / deleteDoc calls outstanding at once
MaxRows     == 2      \* saved records handed to the history view
MaxClicks   == 2      \* clicks on Save while one result is on screen

(* --------------------------- nullable values --------------------------- *)
\* JavaScript null / a present value
Null    == <<>>
Some(x) == <<x>>
Val(o)  == o[1]

Users == {"u1", "u2"}
Files == {"receipt.jpg"}

(* ------------------------- text <-> number ----------------------------- *)
DigitChars == <<"0", "1", "2", "3", "4", "5", "6", "7", "8", "9">>
IsDigit(c) == \E i \in 1..10 : DigitChars[i] = c
DigitValue(c) == (CHOOSE i \in 1..10 : DigitChars[i] = c) - 1

\* n written with exactly w decimal digits (zero padded)
RECURSIVE Pad(_, _)
Pad(n, w) == IF w = 0 THEN <<>> ELSE Append(Pad(n \div 10, w - 1), DigitChars[(n % 10) + 1])

\* the YYYY-MM-DD text the response schema asks the service for
ISODate(y, m, d) == Pad(y, 4) \o <<"-">> \o Pad(m, 2) \o <<"-">> \o Pad(d, 2)

\* s.split('-')[0]: the text before the first '-'
RECURSIVE SplitFirst(_)
SplitFirst(s) ==
    IF s = <<>> \/ Head(s) = "-" THEN <<>> ELSE <<Head(s)>> \o SplitFirst(Tail(s))

\* the longest prefix of s made of digits
RECURSIVE LeadingDigits(_)
LeadingDigits(s) ==
    IF s = <<>> \/ ~IsDigit(Head(s)) THEN <<>> ELSE <<Head(s)>> \o LeadingDigits(Tail(s))

RECURSIVE DigitsValue(_)
DigitsValue(s) ==
    IF s = <<>> THEN 0 ELSE 10 * DigitsValue(SubSeq(s, 1, Len(s) - 1)) + DigitValue(s[Len(s)])

RECURSIVE SkipSpaces(_)
SkipSpaces(s) == IF s # <<>> /\ Head(s) = " " THEN SkipSpaces(Tail(s)) ELSE s

\* parseInt(s, 10): Null stands for NaN
ParseInt(s) ==
    LET t == SkipSpaces(s)
        u == IF t # <<>> /\ Head(t) \in {"+", "-"} THEN Tail(t) ELSE t
        g == LeadingDigits(u)
        neg == t # <<>> /\ Head(t) = "-"
    IN  IF g = <<>> THEN Null
        ELSE Some(IF neg THEN 0 - DigitsValue(g) ELSE DigitsValue(g))

(* ----------------------------- the calendar ---------------------------- *)
MsPerMinute == 60 * 1000
MsPerDay    == 24 * 60 * MsPerMinute

IsLeapYear(y) == (y % 4 = 0 /\ y % 100 # 0) \/ y % 400 = 0

\* the number of days of month m (0 = January) of year y
DaysInMonth(y, m) ==
    IF m = 1 THEN (IF IsLeapYear(y) THEN 29 ELSE 28)
    ELSE IF m \in {3, 5, 8, 10} THEN 30 ELSE 31

\* the number of days from 1970-01-01 to the first day of year y
DayFromYear(y) ==
    365 * (y - 1970) + ((y - 1969) \div 4) - ((y - 1901) \div 100) + ((y - 1601) \div 400)

RECURSIVE DaysBeforeMonth(_, _)
DaysBeforeMonth(y, m) ==
    IF m = 0 THEN 0 ELSE DaysBeforeMonth(y, m - 1) + DaysInMonth(y, m - 1)

\* the day number of (year, month, date): a month outside 0..11 and a date outside the
\* month carry over into the neighbouring years and months, as the Date constructor
\* and setDate do
MakeDay(y, m, d) ==
    LET ym == y + (m \div 12)
        mn == m % 12
    IN  DayFromYear(ym) + DaysBeforeMonth(ym, mn) + d - 1

\* the years the clock and the records of a session can lie in
Years == (CurrentYear - 2)..(CurrentYear + 2)

YearFromDay(n) == CHOOSE y \in Years : DayFromYear(y) <= n /\ n < DayFromYear(y + 1)

MonthFromDay(n) ==
    LET y == YearFromDay(n)
        k == n - DayFromYear(y)
    IN  CHOOSE m \in 0..11 : DaysBeforeMonth(y, m) <= k /\ k < DaysBeforeMonth(y, m) + DaysInMonth(y, m)

DateFromDay(n) ==
    LET y == YearFromDay(n)
    IN  n - DayFromYear(y) - DaysBeforeMonth(y, MonthFromDay(n)) + 1

\* 0 = Sunday; 1970-01-01 was a Thursday
WeekDay(n) == (n + 4) % 7

(* ------------------------------- Date ---------------------------------- *)
\* a Date is an instant: whole days since 1970-01-01T00:00Z and milliseconds of the day
Normal(day, ms) == [day |-> day + (ms \div MsPerDay), ms |-> ms % MsPerDay]

\* the wall clock of an instant in the zone z minutes east of UTC, and back
LocalOf(t, z) == Normal(t.day, t.ms + z * MsPerMinute)
FromLocal(l, z) == Normal(l.day, l.ms - z * MsPerMinute)

\* a < b on the time line (the comparison of getTime values)
Before(a, b) == a.day < b.day \/ (a.day = b.day /\ a.ms < b.ms)

getFullYear(t, z) == YearFromDay(LocalOf(t, z).day)
getMonth(t, z)    == MonthFromDay(LocalOf(t, z).day)
getDate(t, z)     == DateFromDay(LocalOf(t, z).day)
getDay(t, z)      == WeekDay(LocalOf(t, z).day)

\* new Date(year, monthIndex, day): local midnight
NewDate(y, m, d, z) == FromLocal([day |-> MakeDay(y, m, d), ms |-> 0], z)

\* t.setDate(d): the local date replaced, the local time of day kept
setDate(t, d, z) ==
    FromLocal([day |-> MakeDay(getFullYear(t, z), getMonth(t, z), d), ms |-> LocalOf(t, z).ms], z)

\* t.setHours(h, mi, sec, ms): the local time of day replaced
setHours(t, h, mi, sec, ms, z) ==
    FromLocal([day |-> LocalOf(t, z).day, ms |-> ((h * 60 + mi) * 60 + sec) * 1000 + ms], z)

\* s.split('-')
RECURSIVE Split(_)
Split(s) ==
    IF s = <<>> THEN << <<>> >>
    ELSE IF Head(s) = "-" THEN << <<>> >> \o Split(Tail(s))
    ELSE LET rest == Split(Tail(s))
         IN  << <<Head(s)>> \o Head(rest) >> \o Tail(rest)

\* Number(s) for a text of digits; Null stands for NaN
Number(s) == IF \A i \in 1..Len(s) : IsDigit(s[i]) THEN Some(DigitsValue(s)) ELSE Null

\* the year, month and day numbers of a YYYY-MM-DD text; Null when it is not one
DateFields(s) ==
    LET parts == Split(s)
    IN  IF Len(parts) = 3 /\ \A i \in 1..3 : parts[i] # <<>> /\ Number(parts[i]) # Null
        THEN Some([k \in 1..3 |-> Val(Number(parts[k]))])
        ELSE Null

\* new Date("YYYY-MM-DD"): midnight UTC of that date; Null stands for an invalid Date
DateParse(s) ==
    LET f == DateFields(s)
    IN  IF f = Null THEN Null
        ELSE LET y == Val(f)[1]
                 m == Val(f)[2]
                 d == Val(f)[3]
             IN  IF y \in Years /\ m \in 1..12 /\ d >= 1 /\ d <= DaysInMonth(y, m - 1)
                 THEN Some([day |-> MakeDay(y, m - 1, d), ms |-> 0])
                 ELSE Null

\* a value that counts as true in a condition: neither null nor the empty text
Truthy(o) == o # Null /\ Val(o) # <<>>

(* ------------------------------- sorting ------------------------------- *)
\* index x put into the sorted list t of indices before the first one it has to
\* precede; precedes[a][b] is TRUE when compare(s[a], s[b]) < 0
Insert(t, x, precedes) ==
    LET js == {j \in 1..Len(t) : precedes[x][t[j]]}
    IN  IF js = {} THEN Append(t, x)
        ELSE LET j == CHOOSE i \in js : \A k \in js : i <= k
             IN  SubSeq(t, 1, j - 1) \o <<x>> \o SubSeq(t, j, Len(t))

\* [...s].sort(compare): a stable sort
Sort(s, precedes) ==
    LET f[k \in 0..Len(s)] == IF k = 0 THEN <<>> ELSE Insert(f[k - 1], k, precedes)
    IN  [i \in 1..Len(s) |-> s[f[Len(s)][i]]]

(* ------------------------------ records -------------------------------- *)
\* a text is a sequence of pieces; an amount is a whole number of hundredths
ReceiptData(n, a, d, c) ==
    [transaction_name |-> n, total_amount |-> a, transaction_date |-> d, category |-> c]

\* what the extraction service may answer for an image
ServiceRecords ==
    { ReceiptData(Some(<<"Starbucks">>), Some(5), Some(ISODate(y, 5, 1)), Some(<<"Food & Drink">>))
        : y \in {CurrentYear - 1, CurrentYear} }
    \cup { ReceiptData(Null, Null, Null, Null) }

\* response.text of generateContent: the JSON text of a record, or a text that is not JSON
ResponseTexts ==
    { [kind |-> "json", value |-> Some(r)] : r \in ServiceRecords }
    \cup { [kind |-> "garbage", value |-> Null] }

(* --------------------------- error messages ---------------------------- *)
\* a message is a sequence of pieces of text
MsgLoadFailed    == <<"Failed to load your saved receipts.">>
MsgSignInFailed  == <<"Failed to sign in. Please try again.">>
MsgNoImage       == <<"Please select an image first.">>
MsgAnalyzeFailed == <<"Failed to analyze the receipt. The API key might be missing or invalid.">>
MsgSaveFailed    == <<"Could not save the transaction. Please try again.">>
MsgDeleteFailed  == <<"Could not delete the transaction. Please try again.">>
MsgInvalidFormat == <<"Received an invalid format from the API.">>
MsgInvalidYear(y) ==
    <<"Invalid year. Only receipts for the calendar year ">> \o Pad(y, 4) \o <<" are accepted.">>

VARIABLES
    user,           \* App state: the signed-in user (Null or Some(uid))
    isAuthLoading,  \* App state
    imageFile,      \* App state: Null or Some(file)
    imageUrl,       \* App state: Null or Some(object URL)
    isLoading,      \* App state
    error,          \* App state: Null or Some(message)
    receiptData,    \* App state: Null or Some(record)
    savedReceipts,  \* App state: sequence of saved records
    isSaved,        \* App state
    isDataLoading,  \* App state
    authPhase,      \* identity provider: "initializing", "idle" or "popup"
    attempts,       \* the runs of handleAnalyzeClick suspended at an await
    writes,         \* the addDoc / deleteDoc calls whose promise has not settled
    nSaves,         \* number of addDoc calls issued so far
    store,          \* the remote 'receipts' collection: a set of documents
    subscription,   \* the onSnapshot listener: Null or Some(uid)
    snapshots,      \* snapshots pushed to the listener and not yet delivered
    listener,       \* "none", "starting" (nothing delivered yet), "live",
                    \* "failedAtStart" or "failedLater" (the error callback ran)
    now,            \* new Date() as the history view reads it: the local date and time
    tz,             \* the browser's time zone: minutes east of UTC
    variant,        \* which TransactionHistory is mounted: "flat" or "summary"
    filter,         \* TransactionHistory state: the selected period
    download        \* the CSV handed to the browser by the last click on Download CSV

vars == <<user, isAuthLoading, imageFile, imageUrl, isLoading, error, receiptData,
          savedReceipts, isSaved, isDataLoading, authPhase, attempts,
          writes, nSaves, store, subscription, snapshots, listener,
          now, tz, variant, filter, download>>

\* the state of the history view and of the clock it reads
history == <<now, tz, variant, filter, download>>

\* the identity provider, the extraction calls, the store and its listener
collaborators == <<authPhase, attempts, writes, nSaves, store, subscription, snapshots,
                   listener>>

appVars == <<user, isAuthLoading, imageFile, imageUrl, isLoading, error, receiptData,
             savedReceipts, isSaved, isDataLoading>>

(* ------------------------------ the store ------------------------------ *)
\* the document addDoc writes: the record's fields, the owner and the click time
NewDoc(id, r, uid, t) ==
    [id |-> id,
     data |-> [transaction_name |-> r.transaction_name, total_amount |-> r.total_amount,
               transaction_date |-> r.transaction_date, category |-> r.category,
               userId |-> uid, createdAt |-> t]]

\* { ...doc.data(), id: doc.id }
ToSaved(d) ==
    [transaction_name |-> d.data.transaction_name, total_amount |-> d.data.total_amount,
     transaction_date |-> d.data.transaction_date, category |-> d.data.category,
     userId |-> d.data.userId, createdAt |-> d.data.createdAt, id |-> d.id]

\* orderBy("createdAt", "desc")
RECURSIVE OrderByCreatedAtDesc(_)
OrderByCreatedAtDesc(docs) ==
    IF docs = {} THEN <<>>
    ELSE LET newest == CHOOSE d \in docs : \A e \in docs : e.data.createdAt <= d.data.createdAt
         IN  <<newest>> \o OrderByCreatedAtDesc(docs \ {newest})

\* the query without where("userId", "==", user.uid)
Query_AllUsers(docs, uid) == OrderByCreatedAtDesc(docs)

\* query(collection(db, 'receipts'), where("userId", "==", uid), orderBy("createdAt", "desc"))
Query(docs, uid) == OrderByCreatedAtDesc({d \in docs : d.data.userId = uid})

\* a delete that clears the owner's whole collection
DeleteDoc_WholeCollection(docs, id) ==
    {d \in docs : \A e \in docs : e.id = id => d.data.userId # e.data.userId}

\* the documents left after deleteDoc(doc(db, "receipts", id))
DeleteDoc(docs, id) == {d \in docs : d.id # id}

\* the snapshots the listener has been pushed once the collection is docs2
Pushed(docs2) ==
    IF subscription = Null THEN snapshots
    ELSE LET before == Query(store, Val(subscription))
             after  == Query(docs2, Val(subscription))
         IN  IF after = before THEN snapshots ELSE Append(snapshots, after)

\* the documents saved in earlier sessions, older than any save of this one
InitialDocs ==
    { NewDoc(0, ReceiptData(Some(<<"Shell">>), Some(40), Some(ISODate(CurrentYear, 1, 15)),
                            Some(<<"Transportation">>)), "u1", 0) }

(* ------------------------------ rendering ------------------------------ *)
ScreenSpinner   == isAuthLoading
ScreenLogin     == ~isAuthLoading /\ user = Null
ScreenMain      == ~isAuthLoading /\ user # Null
UploaderShown   == ScreenMain /\ imageUrl = Null
PreviewShown    == ScreenMain /\ imageUrl # Null
ExtractEnabled_NeverDisabled == PreviewShown
ExtractEnabled  == PreviewShown /\ ~isLoading
ResetEnabled    == PreviewShown /\ ~isLoading
ErrorShown      == PreviewShown /\ error # Null
ResultShown     == PreviewShown /\ receiptData # Null
SaveButtonShown == PreviewShown /\ receiptData # Null /\ ~isLoading /\ ~isSaved
SavedBannerShown == PreviewShown /\ receiptData # Null /\ ~isLoading /\ isSaved
HistoryShown    == ScreenMain /\ ~isDataLoading

(* ------------------------------- helpers ------------------------------- *)
\* sequence q without its i-th element
Remove(q, i) == SubSeq(q, 1, i - 1) \o SubSeq(q, i + 1, Len(q))

\* the attempts in flight, every one marked abandoned (the user left their view)
Abandon(as) == [i \in 1..Len(as) |-> [as[i] EXCEPT !.abandoned = TRUE]]

\* attempt i has run to its end
Settle(as, i) == Remove(as, i)

(* --------------------- the history view: flat variant ------------------ *)
FlatFilterButtons == <<"Daily", "Monthly", "Quarterly", "Yearly", "All">>

\* getStartDate: today's local midnight, moved back by the length of the period
getStartDate(p, n, z) ==
    LET startDate == setHours(n, 0, 0, 0, 0, z)
    IN  CASE p = "Monthly"   -> setDate(startDate, getDate(startDate, z) - 30, z)
          [] p = "Quarterly" -> setDate(startDate, getDate(startDate, z) - 90, z)
          [] p = "Yearly"    -> setDate(startDate, getDate(startDate, z) - 365, z)
          [] OTHER           -> startDate

\* new Date(year, month - 1, day) of the split date text; Null stands for an invalid Date
LocalDate(s, z) ==
    LET parts == Split(s)
        num(k) == IF k <= Len(parts) THEN Number(parts[k]) ELSE Null
    IN  IF num(1) = Null \/ num(2) = Null \/ num(3) = Null THEN Null
        ELSE Some(NewDate(Val(num(1)), Val(num(2)) - 1, Val(num(3)), z))

\* filterReceipts(period)
filterReceipts(receipts, period, n, z) ==
    IF period = "All" THEN receipts
    ELSE LET startDate == getStartDate(period, n, z)
             keep(r) ==
                 /\ Truthy(r.transaction_date)
                 /\ LET receiptDate == LocalDate(Val(r.transaction_date), z)
                    IN  /\ receiptDate # Null
                        /\ IF period = "Daily" THEN Val(receiptDate) = startDate
                           ELSE ~Before(Val(receiptDate), startDate)
         IN  SelectSeq(receipts, keep)

\* a.transaction_date ? new Date(a.transaction_date).getTime() : 0
SortTime(r) ==
    LET date == IF Truthy(r.transaction_date) THEN DateParse(Val(r.transaction_date)) ELSE Null
    IN  IF date # Null THEN Val(date) ELSE [day |-> 0, ms |-> 0]

\* the oldest first
NewerFirst_Ascending(dateA, dateB) == Before(dateA, dateB)

\* the comparison dateB - dateA is negative: a goes before b
NewerFirst(dateA, dateB) == Before(dateB, dateA)

\* the outcomes of the comparison over the records of a list
ByDate(s) ==
    LET time == [a \in 1..Len(s) |-> SortTime(s[a])]
    IN  [a \in 1..Len(s) |-> [b \in 1..Len(s) |-> NewerFirst(time[a], time[b])]]

\* sortedReceipts
sortedReceipts(filtered) == Sort(filtered, ByDate(filtered))

(* -------------------- the history view: summary variant ---------------- *)
filterButtons == <<"Daily", "Weekly", "Monthly", "Quarterly", "Yearly", "All">>

\* the week without the adjustment for Sunday
WeekRange_NoSundayAdjust(n, z) ==
    LET dayOfWeek == getDay(n, z)
        diff  == getDate(n, z) - dayOfWeek + 1
        start == setHours(setDate(n, diff, z), 0, 0, 0, 0, z)
        end   == setDate(start, getDate(start, z) + 6, z)
    IN  [start |-> start, end |-> setHours(end, 23, 59, 59, 999, z)]

\* case 'Weekly' of getPeriodDateRange: Monday to Sunday
WeekRange(n, z) ==
    LET dayOfWeek == getDay(n, z)
        diff  == getDate(n, z) - dayOfWeek + (IF dayOfWeek = 0 THEN -6 ELSE 1)
        start == setHours(setDate(n, diff, z), 0, 0, 0, 0, z)
        end   == setDate(start, getDate(start, z) + 6, z)
    IN  [start |-> start, end |-> setHours(end, 23, 59, 59, 999, z)]

\* getPeriodDateRange(period): the start and the end of the period that holds n
getPeriodDateRange(period, n, z) ==
    CASE period = "Daily" ->
           [start |-> setHours(n, 0, 0, 0, 0, z), end |-> setHours(n, 23, 59, 59, 999, z)]
      [] period = "Weekly" -> WeekRange(n, z)
      [] period = "Monthly" ->
           [start |-> NewDate(getFullYear(n, z), getMonth(n, z), 1, z),
            end   |-> setHours(NewDate(getFullYear(n, z), getMonth(n, z) + 1, 0, z),
                               23, 59, 59, 999, z)]
      [] period = "Quarterly" ->
           LET quarter == getMonth(n, z) \div 3
           IN  [start |-> NewDate(getFullYear(n, z), quarter * 3, 1, z),
                end   |-> setHours(NewDate(getFullYear(n, z), quarter * 3 + 3, 0, z),
                                   23, 59, 59, 999, z)]
      [] period = "Yearly" ->
           [start |-> NewDate(getFullYear(n, z), 0, 1, z),
            end   |-> setHours(NewDate(getFullYear(n, z), 11, 31, z), 23, 59, 59, 999, z)]
      [] OTHER -> [start |-> n, end |-> n]

\* relevantReceipts: the records whose date, read as midnight UTC, lies in [start, end]
relevantReceipts(receipts, period, n, z) ==
    LET range == getPeriodDateRange(period, n, z)
        keep(r) ==
            /\ Truthy(r.transaction_date)
            /\ LET receiptDate == DateParse(Val(r.transaction_date))
               IN  /\ receiptDate # Null
                   /\ ~Before(Val(receiptDate), range.start)
                   /\ ~Before(range.end, Val(receiptDate))
    IN  SelectSeq(receipts, keep)

Uncategorized == <<"Uncategorized">>

\* receipt.category || 'Uncategorized'
CategoryOf(receipt) == IF Truthy(receipt.category) THEN Val(receipt.category) ELSE Uncategorized

\* receipt.total_amount || 0
AmountOf(receipt) == IF receipt.total_amount = Null THEN 0 ELSE Val(receipt.total_amount)

\* the total overwritten in place of added to
Tally_Overwrites(entries, receipt) ==
    LET category == CategoryOf(receipt)
        amount == AmountOf(receipt)
        at == {i \in 1..Len(entries) : entries[i].category = category}
    IN  IF at = {}
        THEN Append(entries, [category |-> category, total |-> amount, count |-> 1])
        ELSE [i \in 1..Len(entries) |->
                IF i \in at
                THEN [entries[i] EXCEPT !.total = amount, !.count = @ + 1]
                ELSE entries[i]]

\* one turn of the loop over relevantReceipts: the entries of summary, in the order in
\* which their keys were added
Tally(entries, receipt) ==
    LET category == CategoryOf(receipt)
        amount == AmountOf(receipt)
        at == {i \in 1..Len(entries) : entries[i].category = category}
    IN  IF at = {}
        THEN Append(entries, [category |-> category, total |-> amount, count |-> 1])
        ELSE [i \in 1..Len(entries) |->
                IF i \in at
                THEN [entries[i] EXCEPT !.total = @ + amount, !.count = @ + 1]
                ELSE entries[i]]

\* Object.entries(summary) after the loop
summary(relevant) ==
    LET f[k \in 0..Len(relevant)] == IF k = 0 THEN <<>> ELSE Tally(f[k - 1], relevant[k])
    IN  f[Len(relevant)]

\* equal totals change places
LargerFirst_OrEqual(a, b) == b.total <= a.total

\* the comparison b.total - a.total is negative: a goes before b
LargerFirst(a, b) == b.total < a.total

\* summaryArray
summaryArray(relevant) ==
    LET entries == summary(relevant)
        rows == [i \in 1..Len(entries) |->
                    [category |-> entries[i].category, total |-> entries[i].total,
                     transactionCount |-> entries[i].count]]
        byTotal == [a \in 1..Len(rows) |-> [b \in 1..Len(rows) |-> LargerFirst(rows[a], rows[b])]]
    IN  Sort(rows, byTotal)

\* the value of useMemo (the title text is left out)
HistoryMemo(receipts, period, n, z) ==
    IF period = "All"
    THEN [filteredReceipts |-> Sort(receipts, ByDate(receipts)), summaryData |-> <<>>]
    ELSE LET relevant == relevantReceipts(receipts, period, n, z)
         IN  [filteredReceipts |-> relevant, summaryData |-> summaryArray(relevant)]

hasData(memo, period) ==
    IF period = "All" THEN Len(memo.filteredReceipts) > 0 ELSE Len(memo.summaryData) > 0

(* ------------------------------ CSV export ----------------------------- *)
NA == <<"N/A">>

\* n.toString() for a natural number
RECURSIVE IntText(_)
IntText(n) ==
    IF n < 10 THEN <<DigitChars[n + 1]>>
    ELSE Append(IntText(n \div 10), DigitChars[(n % 10) + 1])

\* amount.toFixed(2), the amount counted in hundredths
toFixed2(c) ==
    IF c < 0 THEN <<"-">> \o IntText((0 - c) \div 100) \o <<".">> \o Pad((0 - c) % 100, 2)
    ELSE IntText(c \div 100) \o <<".">> \o Pad(c % 100, 2)

\* text.replace(/"/g, '""')
RECURSIVE ReplaceQuotes(_)
ReplaceQuotes(text) ==
    IF text = <<>> THEN <<>>
    ELSE (IF Head(text) = "\"" THEN <<"\"", "\"">> ELSE <<Head(text)>>)
         \o ReplaceQuotes(Tail(text))

\* fields.join(sep)
RECURSIVE Join(_, _)
Join(fields, sep) ==
    IF fields = <<>> THEN <<>>
    ELSE IF Len(fields) = 1 THEN fields[1]
    ELSE fields[1] \o <<sep>> \o Join(Tail(fields), sep)

\* the fields of the row of a record in the flat export
RecordFields(r) ==
    << IF Truthy(r.transaction_date) THEN Val(r.transaction_date) ELSE NA,
       <<"\"">> \o ReplaceQuotes(IF Truthy(r.transaction_name) THEN Val(r.transaction_name)
                                 ELSE NA) \o <<"\"">>,
       IF r.total_amount # Null THEN toFixed2(Val(r.total_amount)) ELSE <<"0.00">>,
       IF Truthy(r.category) THEN Val(r.category) ELSE NA >>

\* the fields of the row of a category in the summary export
SummaryFields(row) == <<row.category, toFixed2(row.total), IntText(row.transactionCount)>>

\* period.toLowerCase()
ToLowerCase(period) ==
    CASE period = "Daily" -> "daily"
      [] period = "Weekly" -> "weekly"
      [] period = "Monthly" -> "monthly"
      [] period = "Quarterly" -> "quarterly"
      [] period = "Yearly" -> "yearly"
      [] OTHER -> "all"

\* the file built by downloadCSV of the flat variant: its name, header and rows
FlatCSV(receipts, period, n, z) ==
    LET rows == sortedReceipts(filterReceipts(receipts, period, n, z))
    IN  [filename |-> <<"transaction_history_", ToLowerCase(period), ".csv">>,
         headers  |-> <<"Date", "Transaction", "Amount", "Category">>,
         fields   |-> [k \in 1..Len(rows) |-> RecordFields(rows[k])],
         rows     |-> [k \in 1..Len(rows) |-> Join(RecordFields(rows[k]), ",")]]

\* the file built by downloadCSV of the summary variant
SummaryCSV(receipts, period, n, z) ==
    LET memo == HistoryMemo(receipts, period, n, z)
    IN  IF period = "All"
        THEN [filename |-> <<"all_transactions.csv">>,
              headers  |-> <<"Date", "Transaction", "Amount", "Category">>,
              fields   |-> [k \in 1..Len(memo.filteredReceipts) |->
                              RecordFields(memo.filteredReceipts[k])],
              rows     |-> [k \in 1..Len(memo.filteredReceipts) |->
                              Join(RecordFields(memo.filteredReceipts[k]), ",")]]
        ELSE [filename |-> <<"summary_", ToLowerCase(period), ".csv">>,
              headers  |-> <<"Category", "Total Amount", "Transaction Count">>,
              fields   |-> [k \in 1..Len(memo.summaryData) |->
                              SummaryFields(memo.summaryData[k])],
              rows     |-> [k \in 1..Len(memo.summaryData) |->
                              Join(SummaryFields(memo.summaryData[k]), ",")]]

(* ----------------------- what the history view shows ------------------- *)
\* the table on screen: "records" (one row per record), "summary" (one row per
\* category) or "none" (the empty-state text)
TableShown ==
    IF variant = "flat"
    THEN IF Len(filterReceipts(savedReceipts, filter, now, tz)) > 0 THEN "records" ELSE "none"
    ELSE IF ~hasData(HistoryMemo(savedReceipts, filter, now, tz), filter) THEN "none"
         ELSE IF filter = "All" THEN "records" ELSE "summary"

\* the rows of the record table on screen
RecordRows ==
    IF variant = "flat" THEN sortedReceipts(filterReceipts(savedReceipts, filter, now, tz))
    ELSE IF filter = "All" THEN HistoryMemo(savedReceipts, filter, now, tz).filteredReceipts
    ELSE <<>>

\* the rows of the summary table on screen
SummaryRows ==
    IF variant = "flat" \/ filter = "All" THEN <<>>
    ELSE HistoryMemo(savedReceipts, filter, now, tz).summaryData

\* the records the selected period lets through, in the order of the saved list
IncludedRows ==
    IF variant = "flat" THEN filterReceipts(savedReceipts, filter, now, tz)
    ELSE IF filter = "All" THEN savedReceipts
    ELSE relevantReceipts(savedReceipts, filter, now, tz)

Init ==
    /\ user = Null
    /\ isAuthLoading = TRUE
    /\ imageFile = Null
    /\ imageUrl = Null
    /\ isLoading = FALSE
    /\ error = Null
    /\ receiptData = Null
    /\ savedReceipts = <<>>
    /\ isSaved = FALSE
    /\ isDataLoading = FALSE
    /\ authPhase = "initializing"
    /\ attempts = <<>>
    /\ writes = <<>>
    /\ nSaves = 0
    /\ store = InitialDocs
    /\ subscription = Null
    /\ snapshots = <<>>
    /\ listener = "none"
    /\ now = NewDate(CurrentYear, 0, 1, 0)
    /\ tz = 0
    /\ variant = "flat"
    /\ filter = "All"
    /\ download = Null

(* ---------------------------- authentication --------------------------- *)
\* useEffect on [user], run with the new value u of user
UserEffect(u) ==
    IF u # Null
    THEN /\ isDataLoading' = TRUE
         /\ subscription' = u
         /\ snapshots' = <<Query(store, Val(u))>>
         /\ listener' = "starting"
         /\ UNCHANGED savedReceipts
    ELSE /\ savedReceipts' = <<>>
         /\ isDataLoading' = FALSE
         /\ subscription' = Null
         /\ snapshots' = <<>>
         /\ listener' = "none"

\* the first onAuthStateChanged callback: the persisted session, if any
AuthInit ==
    /\ authPhase = "initializing"
    /\ \E u \in {Null} \cup {Some(x) : x \in Users} :
         /\ user' = u
         /\ IF u # Null THEN UserEffect(u)
            ELSE UNCHANGED <<savedReceipts, isDataLoading, subscription, snapshots, listener>>
    /\ isAuthLoading' = FALSE
    /\ authPhase' = "idle"
    /\ UNCHANGED <<imageFile, imageUrl, isLoading, error, receiptData, isSaved, attempts,
                   writes, nSaves, store, history>>

\* handleLogin up to the await
LoginClick ==
    /\ ScreenLogin
    /\ authPhase = "idle"
    /\ isAuthLoading' = TRUE
    /\ authPhase' = "popup"
    /\ UNCHANGED <<user, imageFile, imageUrl, isLoading, error, receiptData, savedReceipts,
                   isSaved, isDataLoading, attempts, writes, nSaves, store, subscription,
                   snapshots, listener, history>>

\* signInWithPopup resolves: onAuthStateChanged(u), then handleLogin's finally
LoginSucceeds ==
    /\ authPhase = "popup"
    /\ \E x \in Users :
         /\ user' = Some(x)
         /\ UserEffect(Some(x))
    /\ isAuthLoading' = FALSE
    /\ authPhase' = "idle"
    /\ UNCHANGED <<imageFile, imageUrl, isLoading, error, receiptData, isSaved, attempts,
                   writes, nSaves, store, history>>

\* signInWithPopup rejects: handleLogin's catch and finally
LoginFails ==
    /\ authPhase = "popup"
    /\ error' = Some(MsgSignInFailed)
    /\ isAuthLoading' = FALSE
    /\ authPhase' = "idle"
    /\ UNCHANGED <<user, imageFile, imageUrl, isLoading, receiptData, savedReceipts,
                   isSaved, isDataLoading, attempts, writes, nSaves, store, subscription,
                   snapshots, listener, history>>

\* handleLogout: signOut, onAuthStateChanged(null), the effect's cleanup and else branch
Logout ==
    /\ ScreenMain
    /\ user' = Null
    /\ UserEffect(Null)
    /\ attempts' = Abandon(attempts)
    /\ UNCHANGED <<isAuthLoading, imageFile, imageUrl, isLoading, error, receiptData,
                   isSaved, authPhase, writes, nSaves, store, history>>

(* ------------------------------ the image ------------------------------ *)
\* URL.createObjectURL(file)
CreateObjectURL(f) == Some([blob |-> f])

\* resetState
ResetState ==
    /\ imageFile' = Null
    /\ imageUrl' = Null
    /\ isLoading' = FALSE
    /\ error' = Null
    /\ receiptData' = Null
    /\ isSaved' = FALSE

\* handleImageSelect, called by the uploader with the chosen file
ImageSelect ==
    /\ UploaderShown
    /\ \E f \in Files :
         /\ imageFile' = Some(f)
         /\ imageUrl' = CreateObjectURL(f)
    /\ isLoading' = FALSE
    /\ error' = Null
    /\ receiptData' = Null
    /\ isSaved' = FALSE
    /\ attempts' = Abandon(attempts)
    /\ UNCHANGED <<user, isAuthLoading, savedReceipts, isDataLoading, authPhase, writes,
                   nSaves, store, subscription, snapshots, listener, history>>

\* the Reset button
Reset ==
    /\ ResetEnabled
    /\ ResetState
    /\ attempts' = Abandon(attempts)
    /\ UNCHANGED <<user, isAuthLoading, savedReceipts, isDataLoading, authPhase, writes,
                   nSaves, store, subscription, snapshots, listener, history>>

(* ----------------------------- the analysis ---------------------------- *)
\* receiptYear > currentYear in place of receiptYear !== currentYear
YearMismatch_FutureOnly(result, year) ==
    /\ result.transaction_date # Null
    /\ LET y == ParseInt(SplitFirst(Val(result.transaction_date)))
       IN  y # Null /\ Val(y) > year

\* the year check of handleAnalyzeClick: TRUE when the result is rejected
YearMismatch(result, year) ==
    /\ result.transaction_date # Null
    /\ ParseInt(SplitFirst(Val(result.transaction_date))) # Some(year)

\* JSON.parse(jsonText) in analyzeReceiptImage: TRUE when it throws
ParseThrows(text) == text.kind # "json"

\* the message handleAnalyzeClick's catch shows, whatever was thrown
CatchMessage(thrown) == MsgAnalyzeFailed

\* the request sent a second time
IssueRequest_Twice(a) == [a EXCEPT !.phase = "requesting", !.requests = a.requests + 2]

\* analyzeReceiptImage is entered: one generateContent request goes out
IssueRequest(a) == [a EXCEPT !.phase = "requesting", !.requests = a.requests + 1]

\* handleAnalyzeClick up to its first await
AnalyzeClick ==
    /\ ExtractEnabled
    /\ Len(attempts) < MaxCalls
    /\ IF imageFile = Null
       THEN /\ error' = Some(MsgNoImage)
            /\ UNCHANGED <<isLoading, receiptData, isSaved, attempts>>
       ELSE /\ isLoading' = TRUE
            /\ error' = Null
            /\ receiptData' = Null
            /\ isSaved' = FALSE
            /\ attempts' = Append(attempts,
                   [file |-> Val(imageFile), phase |-> "reading", requests |-> 0,
                    abandoned |-> FALSE])
    /\ UNCHANGED <<user, isAuthLoading, imageFile, imageUrl, savedReceipts, isDataLoading,
                   authPhase, writes, nSaves, store, subscription, snapshots, listener,
                   history>>

\* fileToBase64 resolves and analyzeReceiptImage sends its request
FileReadSucceeds ==
    \E i \in 1..Len(attempts) :
        /\ attempts[i].phase = "reading"
        /\ attempts' = [attempts EXCEPT ![i] = IssueRequest(attempts[i])]
        /\ UNCHANGED <<user, isAuthLoading, imageFile, imageUrl, isLoading, error,
                       receiptData, savedReceipts, isSaved, isDataLoading, authPhase,
                       writes, nSaves, store, subscription, snapshots, listener, history>>

\* fileToBase64 of attempt i rejects (reader.onerror): the catch and finally blocks
FileReadFailsAt(i) ==
    /\ attempts[i].phase = "reading"
    /\ error' = Some(CatchMessage(<<"FileReader error">>))
    /\ isLoading' = FALSE
    /\ attempts' = Settle(attempts, i)
    /\ UNCHANGED <<user, isAuthLoading, imageFile, imageUrl, receiptData, savedReceipts,
                   isSaved, isDataLoading, authPhase, writes, nSaves, store, subscription,
                   snapshots, listener, history>>

FileReadFails == \E i \in 1..Len(attempts) : FileReadFailsAt(i)

\* the catch block without the finally block
RequestRejectsAt_NoFinally(i) ==
    /\ attempts[i].phase = "requesting"
    /\ error' = Some(CatchMessage(<<"request failed">>))
    /\ attempts' = Settle(attempts, i)
    /\ UNCHANGED <<user, isAuthLoading, imageFile, imageUrl, isLoading, receiptData,
                   savedReceipts, isSaved, isDataLoading, authPhase, writes, nSaves, store,
                   subscription, snapshots, listener, history>>

\* generateContent of attempt i rejects (network, API key): the catch and finally blocks
RequestRejectsAt(i) ==
    /\ attempts[i].phase = "requesting"
    /\ error' = Some(CatchMessage(<<"request failed">>))
    /\ isLoading' = FALSE
    /\ attempts' = Settle(attempts, i)
    /\ UNCHANGED <<user, isAuthLoading, imageFile, imageUrl, receiptData, savedReceipts,
                   isSaved, isDataLoading, authPhase, writes, nSaves, store, subscription,
                   snapshots, listener, history>>

RequestRejects == \E i \in 1..Len(attempts) : RequestRejectsAt(i)

\* generateContent of attempt i resolves with a response text: the rest of
\* analyzeReceiptImage and of handleAnalyzeClick
RequestResolvesWith(i, text) ==
    /\ attempts[i].phase = "requesting"
    /\ IF ParseThrows(text)
       THEN \* throw new Error("Received an invalid format from the API."), caught
            /\ error' = Some(CatchMessage(MsgInvalidFormat))
            /\ UNCHANGED receiptData
       ELSE IF YearMismatch(Val(text.value), CurrentYear)
       THEN /\ error' = Some(MsgInvalidYear(CurrentYear))
            /\ UNCHANGED receiptData
       ELSE /\ receiptData' = text.value
            /\ UNCHANGED error
    /\ isLoading' = FALSE
    /\ attempts' = Settle(attempts, i)
    /\ UNCHANGED <<user, isAuthLoading, imageFile, imageUrl, savedReceipts, isSaved,
                   isDataLoading, authPhase, writes, nSaves, store, subscription,
                   snapshots, listener, history>>

RequestResolves ==
    \E i \in 1..Len(attempts), text \in ResponseTexts : RequestResolvesWith(i, text)

(* ------------------------- saving and deleting ------------------------- *)
\* new Date() at a click on Save: a logical time, later clicks have later times
ClickTime == nSaves + 1

\* the identifier addDoc gives the new document: never one given before
AutoId == nSaves + 1

AddWrite(doc) == [op |-> "add", id |-> doc.id, doc |-> Some(doc)]

DeleteWrite(id) == [op |-> "delete", id |-> id, doc |-> Null]

\* handleSaveReceipt up to the await: addDoc is called with the record on screen; at
\* most maxSaves calls in a session and maxPending writes outstanding
SaveClickWithin(maxSaves, maxPending) ==
    /\ SaveButtonShown
    /\ nSaves < maxSaves
    /\ Len(writes) < maxPending
    /\ IF receiptData = Null \/ user = Null
       THEN UNCHANGED <<writes, nSaves>>
       ELSE /\ writes' = Append(writes,
                   AddWrite(NewDoc(AutoId, Val(receiptData), Val(user), ClickTime)))
            /\ nSaves' = nSaves + 1
    /\ UNCHANGED <<user, isAuthLoading, imageFile, imageUrl, isLoading, error, receiptData,
                   savedReceipts, isSaved, isDataLoading, authPhase, attempts, store,
                   subscription, snapshots, listener, history>>

\* a click on "Save Transaction"
SaveClick == SaveClickWithin(MaxSaves, MaxPending)

\* the trash button of a row of the history table: handleDeleteReceipt up to the await
DeleteClick ==
    /\ HistoryShown
    /\ Len(writes) < MaxPending
    /\ \E k \in 1..Len(savedReceipts) :
         writes' = Append(writes, DeleteWrite(savedReceipts[k].id))
    /\ UNCHANGED <<user, isAuthLoading, imageFile, imageUrl, isLoading, error, receiptData,
                   savedReceipts, isSaved, isDataLoading, authPhase, attempts, nSaves,
                   store, subscription, snapshots, listener, history>>

\* a delete that blanks the document in place of removing it
Applied_BlanksOnDelete(docs, w) ==
    IF w.op = "add" THEN docs \cup {Val(w.doc)}
    ELSE {IF d.id = w.id THEN [d EXCEPT !.data.total_amount = Null] ELSE d : d \in docs}

\* the collection after the store has applied write w
Applied(docs, w) ==
    IF w.op = "add" THEN docs \cup {Val(w.doc)} ELSE DeleteDoc(docs, w.id)

\* the store applies write i and pushes the new query result to the listener; the
\* promise of the write resolves: the code after the await
WriteResolvesAt(i) ==
    /\ writes' = Remove(writes, i)
    /\ store' = Applied(store, writes[i])
    /\ snapshots' = Pushed(Applied(store, writes[i]))
    /\ IF writes[i].op = "add" THEN isSaved' = TRUE ELSE UNCHANGED isSaved
    /\ UNCHANGED <<user, isAuthLoading, imageFile, imageUrl, isLoading, error, receiptData,
                   savedReceipts, isDataLoading, authPhase, attempts, nSaves, subscription,
                   listener, history>>

WriteResolves == \E i \in 1..Len(writes) : WriteResolvesAt(i)

\* the message of the catch block of the handler that issued write w
WriteFailedMessage(w) == IF w.op = "add" THEN MsgSaveFailed ELSE MsgDeleteFailed

\* setIsSaved(true) moved out of the try block
WriteRejectsAt_MarksSaved(i) ==
    /\ writes' = Remove(writes, i)
    /\ error' = Some(WriteFailedMessage(writes[i]))
    /\ isSaved' = TRUE
    /\ UNCHANGED <<user, isAuthLoading, imageFile, imageUrl, isLoading, receiptData,
                   savedReceipts, isDataLoading, authPhase, attempts, nSaves, store,
                   subscription, snapshots, listener, history>>

\* the store refuses write i and its promise rejects: the catch block
WriteRejectsAt(i) ==
    /\ writes' = Remove(writes, i)
    /\ error' = Some(WriteFailedMessage(writes[i]))
    /\ UNCHANGED <<user, isAuthLoading, imageFile, imageUrl, isLoading, receiptData,
                   savedReceipts, isSaved, isDataLoading, authPhase, attempts, nSaves,
                   store, subscription, snapshots, listener, history>>

WriteRejects == \E i \in 1..Len(writes) : WriteRejectsAt(i)

(* --------------------------- the subscription -------------------------- *)
\* unshift in place of push
ReceiptsData_Unshift(snapshot) ==
    [k \in 1..Len(snapshot) |-> ToSaved(snapshot[Len(snapshot) + 1 - k])]

\* querySnapshot.forEach(doc => receiptsData.push({ ...doc.data(), id: doc.id }))
ReceiptsData(snapshot) == [k \in 1..Len(snapshot) |-> ToSaved(snapshot[k])]

\* the first callback of onSnapshot
SnapshotDelivered ==
    /\ subscription # Null
    /\ snapshots # <<>>
    /\ savedReceipts' = ReceiptsData(Head(snapshots))
    /\ isDataLoading' = FALSE
    /\ snapshots' = Tail(snapshots)
    /\ listener' = "live"
    /\ UNCHANGED <<user, isAuthLoading, imageFile, imageUrl, isLoading, error, receiptData,
                   isSaved, authPhase, attempts, writes, nSaves, store, subscription,
                   history>>

\* the error callback without setIsDataLoading(false)
SubscriptionError_KeepsLoading ==
    /\ subscription # Null
    /\ error' = Some(MsgLoadFailed)
    /\ subscription' = Null
    /\ snapshots' = <<>>
    /\ listener' = IF listener = "starting" THEN "failedAtStart" ELSE "failedLater"
    /\ UNCHANGED <<user, isAuthLoading, imageFile, imageUrl, isLoading, receiptData,
                   savedReceipts, isSaved, isDataLoading, authPhase, attempts, writes,
                   nSaves, store, history>>

\* the second callback of onSnapshot: the listener fails and is cancelled
SubscriptionError ==
    /\ subscription # Null
    /\ error' = Some(MsgLoadFailed)
    /\ isDataLoading' = FALSE
    /\ subscription' = Null
    /\ snapshots' = <<>>
    /\ listener' = IF listener = "starting" THEN "failedAtStart" ELSE "failedLater"
    /\ UNCHANGED <<user, isAuthLoading, imageFile, imageUrl, isLoading, receiptData,
                   savedReceipts, isSaved, authPhase, attempts, writes, nSaves, store,
                   history>>

Next ==
    \/ AuthInit
    \/ LoginClick
    \/ LoginSucceeds
    \/ LoginFails
    \/ Logout
    \/ ImageSelect
    \/ Reset
    \/ AnalyzeClick
    \/ FileReadSucceeds
    \/ FileReadFails
    \/ RequestRejects
    \/ RequestResolves
    \/ SaveClick
    \/ DeleteClick
    \/ WriteResolves
    \/ WriteRejects
    \/ SnapshotDelivered
    \/ SubscriptionError

Spec == Init /\ [][Next]_vars

\* a promise that is awaited settles, and the code after the await then runs: the file
\* read ends in onload or onerror, the extraction call resolves or rejects
Settles ==
    \/ FileReadSucceeds
    \/ FileReadFails
    \/ RequestRejects
    \/ RequestResolves

FairSpec == Spec /\ WF_vars(Settles)

(* --------------------------- the history view -------------------------- *)
\* the records a user may have saved, in this year and the neighbouring ones
HistoryRecords ==
    { ReceiptData(Some(<<"Starbucks">>), Some(3000), Some(ISODate(CurrentYear, 1, 1)),
                  Some(<<"Food & Drink">>)),
      ReceiptData(Some(<<"Al", "\"", "s Diner">>), Some(3000), Some(ISODate(CurrentYear, 3, 1)),
                  Some(<<"Groceries">>)),
      ReceiptData(Null, Null, Null, Null),
      ReceiptData(Some(<<"Shell">>), Some(525), Some(ISODate(CurrentYear - 1, 12, 31)),
                  Some(<<"Transportation">>)),
      ReceiptData(Some(<<"Grab">>), Null, Some(ISODate(CurrentYear, 3, 31)), Null),
      ReceiptData(Some(<<"Puregold">>), Some(1000), Some(ISODate(CurrentYear, 4, 1)),
                  Some(<<"Groceries">>)) }

\* the lists of records the subscription may have delivered: each record saved once
HistoryLists ==
    UNION {{list \in [1..k -> HistoryRecords] : \A i, j \in 1..k : list[i] = list[j] => i = j}
             : k \in 0..MaxRows}

\* the days on which the view is opened, <<year, month, day>>: the first day of this
\* year and of the next, a whole week across the end of February and the last day of
\* a quarter
NowDays ==
    {<<CurrentYear, 1, 1>>, <<CurrentYear, 3, 31>>, <<CurrentYear + 1, 1, 1>>}
    \cup {<<CurrentYear, 2, d>> : d \in 26..28} \cup {<<CurrentYear, 3, d>> : d \in 0..3}

\* the time zones of the browser, in minutes east of UTC
TimeZones == {-300, 480}

Variants == {"flat", "summary"}

\* the documents behind a delivered list, the newest first
DocsOf(list, uid) ==
    [k \in 1..Len(list) |-> NewDoc(Len(list) + 1 - k, list[k], uid, Len(list) + 1 - k)]

\* a signed-in user looks at the history of the records delivered by the subscription
HistoryInit ==
    /\ user = Some("u1")
    /\ isAuthLoading = FALSE
    /\ imageFile = Null
    /\ imageUrl = Null
    /\ isLoading = FALSE
    /\ error = Null
    /\ receiptData = Null
    /\ \E list \in HistoryLists :
         /\ savedReceipts = ReceiptsData(DocsOf(list, "u1"))
         /\ store = {DocsOf(list, "u1")[k] : k \in 1..Len(list)}
    /\ isSaved = FALSE
    /\ isDataLoading = FALSE
    /\ authPhase = "idle"
    /\ attempts = <<>>
    /\ writes = <<>>
    /\ nSaves = 0
    /\ subscription = Some("u1")
    /\ snapshots = <<>>
    /\ listener = "live"
    /\ tz \in TimeZones
    /\ \E day \in NowDays :
         now = FromLocal([day |-> MakeDay(day[1], day[2] - 1, day[3]),
                          ms |-> 15 * 60 * MsPerMinute + 30 * MsPerMinute], tz)
    /\ variant \in Variants
    /\ filter = "All"
    /\ download = Null

\* a click on the button of period p: setFilter(period)
SetFilter(p) ==
    /\ HistoryShown
    /\ IF variant = "flat"
       THEN Len(savedReceipts) > 0 /\ \E i \in 1..Len(FlatFilterButtons) : FlatFilterButtons[i] = p
       ELSE \E i \in 1..Len(filterButtons) : filterButtons[i] = p
    /\ filter' = p
    /\ download' = Null
    /\ UNCHANGED <<appVars, collaborators, now, tz, variant>>

\* a click on Download CSV: downloadCSV
DownloadCSV ==
    /\ HistoryShown
    /\ Len(savedReceipts) > 0
    /\ download' = Some(IF variant = "flat" THEN FlatCSV(savedReceipts, filter, now, tz)
                        ELSE SummaryCSV(savedReceipts, filter, now, tz))
    /\ UNCHANGED <<appVars, collaborators, now, tz, variant, filter>>

Periods == {filterButtons[i] : i \in 1..Len(filterButtons)}

HistoryNext ==
    \/ \E p \in Periods : SetFilter(p)
    \/ DownloadCSV

HistorySpec == HistoryInit /\ [][HistoryNext]_vars

(* ------------------------- one result on screen ------------------------ *)
\* The application with a user signed in, the saved list loaded and an accepted
\* extraction result on screen: the state handleAnalyzeClick leaves when the year
\* check lets the result through. No further analysis is started in this machine, so
\* every addDoc it issues is for that one result.
AcceptedRecords == {r \in ServiceRecords : ~YearMismatch(r, CurrentYear)}

SaveInit ==
    /\ \E u \in Users :
         /\ user = Some(u)
         /\ subscription = Some(u)
         /\ savedReceipts = ReceiptsData(Query(InitialDocs, u))
    /\ isAuthLoading = FALSE
    /\ \E f \in Files :
         /\ imageFile = Some(f)
         /\ imageUrl = CreateObjectURL(f)
    /\ isLoading = FALSE
    /\ error = Null
    /\ \E r \in AcceptedRecords : receiptData = Some(r)
    /\ isSaved = FALSE
    /\ isDataLoading = FALSE
    /\ authPhase = "idle"
    /\ attempts = <<>>
    /\ writes = <<>>
    /\ nSaves = 0
    /\ store = InitialDocs
    /\ snapshots = <<>>
    /\ listener = "live"
    /\ now = NewDate(CurrentYear, 0, 1, 0)
    /\ tz = 0
    /\ variant = "flat"
    /\ filter = "All"
    /\ download = Null

SaveNext ==
    \/ SaveClickWithin(MaxClicks, MaxClicks)
    \/ WriteResolves
    \/ WriteRejects
    \/ SnapshotDelivered
    \/ SubscriptionError
    \/ DeleteClick
    \/ Reset

SaveSpec == SaveInit /\ [][SaveNext]_vars

(* ------------------------------ properties ----------------------------- *)
\* a date the year rule lets through: absent, or a calendar date of the current year
CurrentYearDates == {ISODate(CurrentYear, m, d) : m \in 1..12, d \in 1..31}

InCurrentYear(date) == date # Null /\ Val(date) \in CurrentYearDates

DateAccepted(date) == date = Null \/ InCurrentYear(date)

PendingAdds == {Val(writes[i].doc) : i \in {k \in 1..Len(writes) : writes[k].op = "add"}}

\* every document stored or on its way to the store has a date the year rule lets through
SavedDatesAccepted ==
    \A d \in store \cup PendingAdds : DateAccepted(d.data.transaction_date)

\* C1: a successfully extracted record becomes receiptData if and only if its date is
\* absent or lies in the current system year; otherwise the year-mismatch message is
\* set and receiptData stays null, so no document that is being saved or is stored
\* carries a date of another year.
C1_YearRule ==
    [][/\ SavedDatesAccepted /\ SavedDatesAccepted'
       /\ \A i \in 1..Len(attempts), text \in ResponseTexts :
            (text.kind = "json" /\ RequestResolvesWith(i, text)) =>
                IF DateAccepted(Val(text.value).transaction_date)
                THEN receiptData' = text.value /\ error' = error
                ELSE /\ error' = Some(MsgInvalidYear(CurrentYear))
                     /\ receiptData' = Null]_vars

\* a record of another year was rejected: the message is up and nothing is on screen to save
C1_Witness ==
    /\ error = Some(MsgInvalidYear(CurrentYear))
    /\ receiptData = Null
    /\ PreviewShown
    /\ ~SaveButtonShown

\* C2: no step of handleSaveReceipt or handleDeleteReceipt (issuing the call, its
\* success, its failure) changes savedReceipts; while a user stays signed in the list
\* changes only by the delivery of a snapshot, and then holds the snapshot's documents
\* in the snapshot's order.
C2_OnlyTheSubscription ==
    [][/\ (writes' # writes => savedReceipts' = savedReceipts)
       /\ (user # Null /\ user' # Null /\ savedReceipts' # savedReceipts) =>
            /\ snapshots # <<>>
            /\ Len(savedReceipts') = Len(Head(snapshots))
            /\ \A k \in 1..Len(savedReceipts') :
                 /\ savedReceipts'[k].id = Head(snapshots)[k].id
                 /\ savedReceipts'[k].createdAt = Head(snapshots)[k].data.createdAt
                 /\ savedReceipts'[k].transaction_name = Head(snapshots)[k].data.transaction_name
                 /\ savedReceipts'[k].transaction_date = Head(snapshots)[k].data.transaction_date]_vars

\* a snapshot of two documents has been delivered, newest first
C2_Witness ==
    /\ Len(savedReceipts) = 2
    /\ savedReceipts[1].createdAt > savedReceipts[2].createdAt
    /\ user # Null

\* C3: when addDoc or deleteDoc rejects, the matching message is set and savedReceipts,
\* receiptData and isSaved keep their values; isSaved does not become true by a failed save.
C3_FailedWriteKeepsState ==
    [][\A i \in 1..Len(writes) :
         WriteRejectsAt(i) =>
           /\ error' = Some(IF writes[i].op = "add" THEN MsgSaveFailed ELSE MsgDeleteFailed)
           /\ UNCHANGED <<savedReceipts, receiptData, isSaved>>]_vars

\* a save has failed and the Save button is still there for a retry
C3_Witness ==
    /\ error = Some(MsgSaveFailed)
    /\ ~isSaved
    /\ SaveButtonShown

\* C4: every failure (sign-in, save, delete, file read, extraction call, parse, year
\* check) leaves the application showing the message it has set.
C4_EveryFailureVisible ==
    [][(\/ LoginFails
        \/ \E i \in 1..Len(writes) : WriteRejectsAt(i)
        \/ \E i \in 1..Len(attempts) : FileReadFailsAt(i) \/ RequestRejectsAt(i)
        \/ \E i \in 1..Len(attempts), text \in ResponseTexts :
             /\ RequestResolvesWith(i, text)
             /\ IF ParseThrows(text) THEN TRUE
                ELSE YearMismatch(Val(text.value), CurrentYear))
       => ErrorShown']_vars

\* C5: a deleteDoc that the store applies removes the document with that identifier and
\* no other, each remaining document unchanged; when no document has the identifier
\* the collection is unchanged and no error is set.
C5_DeleteExactlyThatRecord ==
    [][\A i \in 1..Len(writes) :
         (writes[i].op = "delete" /\ WriteResolvesAt(i)) =>
           /\ \A d \in store : d.id # writes[i].id => d \in store'
           /\ \A d \in store' : d \in store /\ d.id # writes[i].id
           /\ (\A d \in store : d.id # writes[i].id) => (store' = store /\ error' = error)]_vars

\* the earlier document has been deleted, the one saved in this session is still
\* there, and a second delete of the deleted identifier is on its way
C5_Witness ==
    /\ \E d \in store : d.id = 1
    /\ \A d \in store : d.id # 0
    /\ \E i \in 1..Len(writes) : writes[i] = DeleteWrite(0)

\* C6: when an attempt that was abandoned (sign-out, reset or a new image while it was
\* in flight) settles, receiptData and error are left as they are.
C6_LateResultDiscarded ==
    [][\A i \in 1..Len(attempts) :
         (attempts[i].abandoned /\ attempts' = Settle(attempts, i)) =>
           UNCHANGED <<receiptData, error>>]_vars

\* C7: at most one extraction call is outstanding, exactly when isLoading is true, and
\* the selected image is the one the outstanding call was started with.
C7_OneCallAtATime ==
    /\ Len(attempts) <= 1
    /\ isLoading <=> attempts # <<>>
    /\ \A i \in 1..Len(attempts) : imageUrl # Null /\ imageFile = Some(attempts[i].file)
    /\ isLoading => ~ExtractEnabled /\ ~ResetEnabled /\ ~UploaderShown

\* a call is outstanding after the user has signed out and in again
C7_Witness ==
    /\ Len(attempts) = 1
    /\ attempts[1].phase = "requesting"
    /\ attempts[1].abandoned
    /\ ScreenMain

\* C8 as stated: every attempt that ends has issued exactly one request.
C8_ExactlyOneRequest ==
    [][\A i \in 1..Len(attempts) :
         attempts' = Settle(attempts, i) => attempts[i].requests = 1]_vars

\* C8, amended: an attempt has issued no request while its image is being read and
\* exactly one from then on, so at most one request per attempt and none after its answer.
C8_AtMostOneRequest ==
    \A i \in 1..Len(attempts) :
        attempts[i].requests = IF attempts[i].phase = "reading" THEN 0 ELSE 1

\* an attempt whose single request is out
C8_Witness ==
    \E i \in 1..Len(attempts) : attempts[i].phase = "requesting" /\ attempts[i].requests = 1

\* C9: an unparseable response ends the attempt with an error, no record accepted, and
\* a message other than the one shown when the call itself fails.
C9_ParseFailureHasItsOwnMessage ==
    [][\A i \in 1..Len(attempts), text \in ResponseTexts :
         (ParseThrows(text) /\ RequestResolvesWith(i, text)) =>
           /\ error' # Null
           /\ receiptData' = Null
           /\ error' # Some(MsgAnalyzeFailed)]_vars

\* C10: when the listener fails before delivering anything, the saved list is empty,
\* the data-loading state has ended and the main screen with the history is shown.
C10_ReadFailureAtStart ==
    listener = "failedAtStart" =>
        /\ savedReceipts = <<>>
        /\ ~isDataLoading
        /\ HistoryShown
        /\ UploaderShown \/ PreviewShown

\* the read failed although the store holds a document of the signed-in user
C10_Witness ==
    /\ listener = "failedAtStart"
    /\ error = Some(MsgLoadFailed)
    /\ \E d \in store : user = Some(d.data.userId)

(* ------------------------ properties of the history -------------------- *)
Included(r) == \E j \in 1..Len(IncludedRows) : IncludedRows[j].id = r.id

\* today's local calendar date
TodayYear  == getFullYear(now, tz)
TodayMonth == getMonth(now, tz) + 1
TodayDate  == getDate(now, tz)

\* the calendar date written in a record
YearOf(r)  == Val(DateFields(Val(r.transaction_date)))[1]
MonthOf(r) == Val(DateFields(Val(r.transaction_date)))[2]
DayOf(r)   == Val(DateFields(Val(r.transaction_date)))[3]

HasDate(r) == r.transaction_date # Null /\ DateParse(Val(r.transaction_date)) # Null

\* C11: with 'All' selected the view is the table of every saved record and there is
\* no summary; with any other period selected no table of records is shown, the view
\* is the per-category summary.
C11_AllFlatOthersSummary ==
    /\ filter = "All" =>
         /\ SummaryRows = <<>>
         /\ Len(RecordRows) = Len(savedReceipts)
         /\ \A k \in 1..Len(savedReceipts) :
              \E j \in 1..Len(RecordRows) : RecordRows[j] = savedReceipts[k]
    /\ filter # "All" => TableShown # "records" /\ RecordRows = <<>>

\* C12: with Daily selected, a record with a date is let through exactly when its
\* date is today's local calendar date, in every time zone.
C12_DailyIffToday ==
    filter = "Daily" =>
        \A k \in 1..Len(savedReceipts) :
            HasDate(savedReceipts[k]) =>
                (Included(savedReceipts[k]) <=>
                    /\ YearOf(savedReceipts[k]) = TodayYear
                    /\ MonthOf(savedReceipts[k]) = TodayMonth
                    /\ DayOf(savedReceipts[k]) = TodayDate)

\* the date of r lies in the current calendar month, quarter or year
InCalendarPeriod(r, period) ==
    /\ HasDate(r)
    /\ YearOf(r) = TodayYear
    /\ CASE period = "Monthly"   -> MonthOf(r) = TodayMonth
         [] period = "Quarterly" -> (MonthOf(r) - 1) \div 3 = (TodayMonth - 1) \div 3
         [] OTHER                -> TRUE

\* C13: with Monthly, Quarterly or Yearly selected, a record is let through exactly
\* when it has a date and the date lies in the current calendar month, quarter or year.
C13_CalendarPeriods ==
    filter \in {"Monthly", "Quarterly", "Yearly"} =>
        \A k \in 1..Len(savedReceipts) :
            Included(savedReceipts[k]) <=> InCalendarPeriod(savedReceipts[k], filter)

\* the summary of a period is on screen
SummaryView == variant = "summary" /\ filter # "All"

\* the label a record is counted under
Label(r) == IF r.category = Null THEN <<"Uncategorized">> ELSE Val(r.category)

\* the sum of total_amount over records, an absent amount counted as 0
RECURSIVE SumAmounts(_)
SumAmounts(rs) ==
    IF rs = <<>> THEN 0
    ELSE (IF Head(rs).total_amount = Null THEN 0 ELSE Val(Head(rs).total_amount))
         + SumAmounts(Tail(rs))

RECURSIVE SumTotals(_)
SumTotals(rows) == IF rows = <<>> THEN 0 ELSE Head(rows).total + SumTotals(Tail(rows))

RECURSIVE SumCounts(_)
SumCounts(rows) ==
    IF rows = <<>> THEN 0 ELSE Head(rows).transactionCount + SumCounts(Tail(rows))

\* the records of a list counted under a label
Labelled(rs, label) ==
    LET has(r) == Label(r) = label
    IN  SelectSeq(rs, has)

FirstSeen(rs, label) ==
    CHOOSE k \in 1..Len(rs) :
        /\ Label(rs[k]) = label
        /\ \A j \in 1..(k - 1) : Label(rs[j]) # label

\* C15: the summary rows are in non-increasing order of total, and rows of equal total
\* are in the order in which their categories first occur among the included records.
C15_SummarySorted ==
    SummaryView =>
        LET rows == SummaryRows
            inc  == IncludedRows
        IN  \A i \in 1..(Len(rows) - 1) :
                /\ rows[i].total >= rows[i + 1].total
                /\ rows[i].total = rows[i + 1].total =>
                     FirstSeen(inc, rows[i].category) < FirstSeen(inc, rows[i + 1].category)

\* two categories of equal, non-zero total
C15_Witness ==
    /\ SummaryView
    /\ LET rows == SummaryRows
       IN  /\ Len(rows) = 2
           /\ rows[1].total = rows[2].total
           /\ rows[1].total > 0

\* a text of digits, a point and two digits
TwoDecimals(t) ==
    /\ Len(t) >= 4
    /\ t[Len(t) - 2] = "."
    /\ \A i \in 1..Len(t) : i # Len(t) - 2 => IsDigit(t[i])

\* the amount a two-decimal text stands for, in hundredths
Hundredths(t) == 100 * DigitsValue(SubSeq(t, 1, Len(t) - 3)) + DigitsValue(SubSeq(t, Len(t) - 1, Len(t)))

\* C16: in the export of records every absent field (date, name, amount, category) is
\* written as N/A and a present amount with two decimals; in the export of a summary
\* every total is written with two decimals.
C16_ExportedFields ==
    download # Null =>
        LET file == Val(download)
            recs == RecordRows
        IN  IF file.headers[1] = "Date"
            THEN /\ Len(file.fields) = Len(recs)
                 /\ \A k \in 1..Len(recs) :
                      /\ file.fields[k][1] =
                           IF recs[k].transaction_date = Null THEN <<"N/A">>
                           ELSE Val(recs[k].transaction_date)
                      /\ recs[k].transaction_name = Null =>
                           file.fields[k][2] = <<"\"", "N/A", "\"">>
                      /\ IF recs[k].total_amount = Null
                         THEN file.fields[k][3] = <<"N/A">>
                         ELSE /\ TwoDecimals(file.fields[k][3])
                              /\ Hundredths(file.fields[k][3]) = Val(recs[k].total_amount)
                      /\ file.fields[k][4] =
                           IF recs[k].category = Null THEN <<"N/A">> ELSE Val(recs[k].category)
            ELSE \A k \in 1..Len(file.fields) :
                      /\ TwoDecimals(file.fields[k][2])
                      /\ Hundredths(file.fields[k][2]) = SummaryRows[k].total

\* C17: no operation changes a saved record in place: a document that is in the
\* collection before and after a step is the same document, a row of the saved list
\* keeps its identifier and fields from one delivery to the next and is the row of the
\* stored document of that identifier, and the only writes issued are appends of
\* documents with a new identifier and deletes.
C17_NoUpdateInPlace ==
    [][/\ \A d \in store, e \in store' : d.id = e.id => d = e
       /\ \A i \in 1..Len(savedReceipts), j \in 1..Len(savedReceipts') :
            savedReceipts[i].id = savedReceipts'[j].id => savedReceipts[i] = savedReceipts'[j]
       /\ \A j \in 1..Len(savedReceipts') :
            \A e \in store' : e.id = savedReceipts'[j].id => savedReceipts'[j] = ToSaved(e)
       /\ \A i \in 1..Len(writes') :
            /\ writes'[i].op \in {"add", "delete"}
            /\ writes'[i].op = "add" => \A d \in store' : d.id # writes'[i].id]_vars

\* a record saved in this session is stored and listed after an older one was deleted
C17_Witness ==
    /\ writes = <<>>
    /\ Len(savedReceipts) = 1
    /\ savedReceipts[1].id = 1
    /\ \A d \in store : d.id = 1 /\ savedReceipts[1] = ToSaved(d)
    /\ store # {}

\* C18: with Weekly selected the range starts at the local midnight of the Monday on
\* or before today (six days back when today is a Sunday), ends six days later at
\* 23:59:59.999, so it spans seven calendar days and holds today, also when the Monday
\* lies in the month or year before.
C18_WeeklyRange ==
    (variant = "summary" /\ filter = "Weekly") =>
        LET range == getPeriodDateRange(filter, now, tz)
            start == LocalOf(range.start, tz)
            end   == LocalOf(range.end, tz)
            today == LocalOf(now, tz).day
        IN  /\ start.ms = 0
            /\ WeekDay(start.day) = 1
            /\ start.day = today - (IF WeekDay(today) = 0 THEN 6 ELSE WeekDay(today) - 1)
            /\ end.day = start.day + 6
            /\ end.ms = MsPerDay - 1
            /\ ~Before(now, range.start) /\ ~Before(range.end, now)

\* today is a Sunday and the Monday of its week lies in the month before
C18_Witness ==
    /\ variant = "summary"
    /\ filter = "Weekly"
    /\ getDay(now, tz) = 0
    /\ getMonth(getPeriodDateRange(filter, now, tz).start, tz) # getMonth(now, tz)

\* the calendar date of a is later than that of b
LaterDate(a, b) ==
    \/ YearOf(a) > YearOf(b)
    \/ YearOf(a) = YearOf(b) /\ MonthOf(a) > MonthOf(b)
    \/ YearOf(a) = YearOf(b) /\ MonthOf(a) = MonthOf(b) /\ DayOf(a) > DayOf(b)

\* C19: the table of records lists them from the latest date to the earliest, and every
\* record without a date comes after every record with one.
C19_FlatViewOrder ==
    LET rows == RecordRows
    IN  \A i, j \in 1..Len(rows) :
            i < j =>
                /\ rows[i].transaction_date = Null => rows[j].transaction_date = Null
                /\ (rows[i].transaction_date # Null /\ rows[j].transaction_date # Null) =>
                     ~LaterDate(rows[j], rows[i])

\* a record without a date was saved last and is listed after an older, dated one
C19_Witness ==
    /\ Len(savedReceipts) = 2
    /\ savedReceipts[1].transaction_date = Null
    /\ savedReceipts[2].transaction_date # Null
    /\ LET rows == RecordRows
       IN  Len(rows) = 2 /\ rows[1] = savedReceipts[2] /\ rows[2] = savedReceipts[1]

\* the four fields of a record
Fields(r) == <<r.transaction_name, r.total_amount, r.transaction_date, r.category>>

\* C20: isSaved becomes true only by the success of the append of the record that is
\* on screen, and while it stays true the record on screen stays the same.
C20_SavedMeansPersisted ==
    [][/\ (isSaved' /\ ~isSaved) =>
            \E i \in 1..Len(writes) :
                /\ writes[i].op = "add"
                /\ WriteResolvesAt(i)
                /\ receiptData' # Null
                /\ Fields(Val(receiptData')) = Fields(Val(writes[i].doc).data)
       /\ (isSaved /\ isSaved') => receiptData' = receiptData]_vars

\* the documents appended, or on their way to the store, by the saves of this session
Appended == PendingAdds \cup (store \ InitialDocs)

\* C21: one accepted extraction result leads to at most one appended record: with one
\* result on screen and no further analysis, at most one document is appended or on
\* its way to the store, however the clicks on Save interleave with the completion of
\* the first append.
C21_AtMostOneAppend == Cardinality(Appended) <= 1

\* the saved list holds only records of the signed-in user and is empty without one; the
\* listener, while there is one, is the signed-in user's and every snapshot it is still
\* to deliver holds only that user's documents
OnlyOwnRecords ==
    /\ user = Null => savedReceipts = <<>> /\ subscription = Null
    /\ user # Null => \A k \in 1..Len(savedReceipts) : savedReceipts[k].userId = Val(user)
    /\ subscription # Null =>
         /\ subscription = user
         /\ \A n \in 1..Len(snapshots) : \A k \in 1..Len(snapshots[n]) :
                snapshots[n][k].data.userId = Val(subscription)

\* C22: in every reachable state the saved list contains only records owned by the
\* signed-in user and is empty when nobody is signed in; the subscription delivers only
\* that user's records and ends at sign-out; every record a save appends carries the uid
\* of the user signed in at the click.
C22_OnlyOwnRecords ==
    [][/\ OnlyOwnRecords
       /\ OnlyOwnRecords'
       /\ (Len(writes') > Len(writes) /\ writes'[Len(writes')].op = "add") =>
             /\ user # Null
             /\ Val(writes'[Len(writes')].doc).data.userId = Val(user)
       /\ (user' = Null /\ user # Null) => savedReceipts' = <<>> /\ snapshots' = <<>>]_vars

\* the second user is signed in and has saved a record: the store holds documents of
\* both users and the list shows the second user's only
C22_Witness ==
    /\ user = Some("u2")
    /\ listener = "live"
    /\ \E d \in store : d.data.userId = "u1"
    /\ \E d \in store : d.data.userId = "u2"
    /\ Len(savedReceipts) = 1
    /\ savedReceipts[1].userId = "u2"

\* the messages an analysis attempt can end with
AnalysisMessages == {MsgAnalyzeFailed, MsgInvalidYear(CurrentYear)}

\* this step is the end of attempt i: its file read failed or its extraction call settled
Ends(i) ==
    /\ i \in 1..Len(attempts)
    /\ attempts' = Settle(attempts, i)

\* C23: every analysis attempt that was started leaves the loading state once its call
\* has settled; the step that ends an attempt makes isLoading false and sets exactly one
\* of receiptData (an accepted result) and error (a failure message), so that exactly
\* one of them is present when nothing else has set them since the start; the step that
\* starts an attempt sets isLoading and clears the result, the error and the saved flag.
C23_AttemptEnds ==
    /\ isLoading ~> ~isLoading
    /\ [][/\ \A i \in 1..Len(attempts) :
               Ends(i) =>
                 /\ ~isLoading'
                 /\ \/ /\ receiptData' # Null
                       /\ Val(receiptData') \in AcceptedRecords
                       /\ error' = error
                    \/ /\ error' # Null
                       /\ Val(error') \in AnalysisMessages
                       /\ receiptData' = receiptData
                 /\ (receiptData = Null /\ error = Null) =>
                       (receiptData' = Null) # (error' = Null)
          /\ Len(attempts') > Len(attempts) =>
                 /\ isLoading'
                 /\ receiptData' = Null
                 /\ error' = Null
                 /\ ~isSaved']_vars

\* an attempt started while an accepted result was on screen has ended with the
\* year-mismatch message: the earlier result is gone and only the error is present
C23_Witness ==
    /\ attempts = <<>>
    /\ ~isLoading
    /\ imageFile # Null
    /\ receiptData = Null
    /\ error = Some(MsgInvalidYear(CurrentYear))
    /\ nSaves = 1

====
